---- MODULE Spec2Model ----
(***************************************************************************)
(* RadioTrack inventory report generation (pdf_generator.py).              *)
(*                                                                         *)
(* Text is a sequence of character codes (ASCII), so that slicing,         *)
(* concatenation, length and lexical order are the operations the code     *)
(* applies to Python strings.  A document is the sequence of flowables     *)
(* handed to doc.build; a byte stream is a record holding the document it  *)
(* encodes and the stream position.                                        *)
(***************************************************************************)
EXTENDS Integers, Sequences, FiniteSets, TLC

\* ------------------------------------------------------------------ bounds
MaxItems == 2          \* at most this many rows in the items table

\* ------------------------------------------------------- string literals
S_Title      == <<77, 67, 67, 32, 82, 97, 100, 105, 111, 32, 73, 110, 118, 101, 110, 116, 111, 114, 121>>   \* "MCC Radio Inventory"
S_Item       == <<32, 45, 32, 73, 116, 101, 109, 58, 32>>                                  \* " - Item: "
S_Location   == <<32, 45, 32, 76, 111, 99, 97, 116, 105, 111, 110, 58, 32>>                \* " - Location: "
S_Category   == <<32, 45, 32, 67, 97, 116, 101, 103, 111, 114, 121, 58, 32>>               \* " - Category: "
S_Condition  == <<32, 45, 32, 67, 111, 110, 100, 105, 116, 105, 111, 110, 58, 32>>         \* " - Condition: "
S_NotFound   == <<78, 111, 116, 32, 70, 111, 117, 110, 100>>                               \* "Not Found"
S_Ellipsis   == <<46, 46, 46>>                                                             \* "..."
S_Generated  == <<71, 101, 110, 101, 114, 97, 116, 101, 100, 32, 111, 110, 32>>            \* "Generated on "
S_TotalItems == <<84, 111, 116, 97, 108, 32, 73, 116, 101, 109, 115>>                      \* "Total Items"
S_Open       == <<32, 40>>                                                                 \* " ("
S_ItemsClose == <<32, 105, 116, 101, 109, 115, 41>>                                        \* " items)"
H_ItemName   == <<73, 116, 101, 109, 32, 78, 97, 109, 101>>                                \* "Item Name"
H_Category   == <<67, 97, 116, 101, 103, 111, 114, 121>>                                   \* "Category"
H_Location   == <<76, 111, 99, 97, 116, 105, 111, 110>>                                    \* "Location"
H_Condition  == <<67, 111, 110, 100, 105, 116, 105, 111, 110>>                             \* "Condition"
H_Notes      == <<78, 111, 116, 101, 115>>                                                 \* "Notes"
F_Title      == <<82, 97, 100, 105, 111, 84, 114, 97, 99, 107, 32, 73, 110, 118, 101, 110, 116, 111, 114, 121, 32, 82, 101, 112, 111, 114, 116>>   \* "RadioTrack Inventory Report"
F_Line1      == <<80, 68, 70, 32, 103, 101, 110, 101, 114, 97, 116, 105, 111, 110, 32, 101, 110, 99, 111, 117, 110, 116, 101, 114, 101, 100, 32, 97, 110, 32, 105, 115, 115, 117, 101, 46>>   \* "PDF generation encountered an issue."
F_Line2      == <<80, 108, 101, 97, 115, 101, 32, 99, 104, 101, 99, 107, 32, 116, 104, 101, 32, 97, 112, 112, 108, 105, 99, 97, 116, 105, 111, 110, 32, 100, 97, 116, 97, 32, 97, 110, 100, 32, 116, 114, 121, 32, 97, 103, 97, 105, 110, 46>>   \* "Please check the application data and try again."

\* Truncation budgets of the flat table and of the per-location tables.
FlatNameBudget     == 50
FlatCategoryBudget == 30
FlatLocationBudget == 30
FlatNotesBudget    == 50
LocNameBudget      == 45
LocCategoryBudget  == 25
LocNotesBudget     == 40

\* Row background colours.
White     == "#FFFFFF"
LightGrey == "#F5F5F5"
FlatHeaderColor == "#1976D2"
LocHeaderColor  == "#2196F3"

\* --------------------------------------------------------- the input data
\* A text of n characters, all letters, no two neighbours equal.
Fill(n, k) == [i \in 1..n |-> 65 + ((i + k) % 26)]

RadioA   == <<82, 97, 100, 105, 111, 32, 65>>      \* "Radio A"
RadioB   == <<82, 97, 100, 105, 111, 32, 66>>      \* "Radio B"
Handheld == <<72, 97, 110, 100, 104, 101, 108, 100>>
Zone1    == <<90, 111, 110, 101, 49>>
Zone2    == <<90, 111, 110, 101, 50>>
zone1    == <<122, 111, 110, 101, 49>>             \* "zone1": differs from Zone1 in case only
\* "Main Control Room - East Wing 2": 31 characters
LongLoc  == <<77, 97, 105, 110, 32, 67, 111, 110, 116, 114, 111, 108, 32, 82, 111, 111, 109, 32, 45, 32, 69, 97, 115, 116, 32, 87, 105, 110, 103, 32, 50>>
Good     == <<71, 111, 111, 100>>
Poor     == <<80, 111, 111, 114>>
NeedForOrder == <<78, 101, 101, 100, 32, 102, 111, 114, 32, 111, 114, 100, 101, 114>>
Digit1   == <<49>>                                 \* "1"
Empty    == <<>>                                   \* ""

\* A missing notes value (NULL in the table, NaN/None in the data frame).
NaN == <<-1>>

\* The contents an inventory row may have: field lengths sit on both sides of
\* every truncation budget.
ItemPool ==
  { [name |-> RadioA, category |-> Handheld, location |-> Zone1,
     condition |-> Good, notes |-> Empty],
    [name |-> Fill(FlatNameBudget + 1, 0), category |-> Fill(FlatCategoryBudget + 1, 3),
     location |-> Zone1, condition |-> Poor, notes |-> Fill(FlatNotesBudget + 1, 5)],
    [name |-> Fill(FlatNameBudget, 7), category |-> Fill(FlatCategoryBudget, 9),
     location |-> Zone2, condition |-> Good, notes |-> Fill(FlatNotesBudget, 11)],
    [name |-> Fill(LocNameBudget + 1, 13), category |-> Fill(LocCategoryBudget + 1, 15),
     location |-> LongLoc, condition |-> NeedForOrder, notes |-> Fill(LocNotesBudget + 1, 17)],
    [name |-> Fill(LocNameBudget, 19), category |-> Fill(LocCategoryBudget, 21),
     location |-> Zone2, condition |-> Good, notes |-> Fill(LocNotesBudget, 23)],
    [name |-> RadioB, category |-> Handheld, location |-> LongLoc,
     condition |-> Poor, notes |-> NaN] }

\* The locations the data access layer knows.
KnownLocations == {Zone1, Zone2, LongLoc}

\* Report kinds a caller may pass; "bogus" stands for any unrecognized kind.
ReportTypes == {"complete", "item", "location", "category", "condition", "bogus"}

\* Filter values: None, an int, or a str.
FNone   == [t |-> "none", n |-> 0, s |-> Empty]
FInt(k) == [t |-> "int", n |-> k, s |-> Empty]
FStr(x) == [t |-> "str", n |-> 0, s |-> x]

FilterValues ==
  {FNone} \cup {FInt(k) : k \in 0..MaxItems}
          \cup {FStr(x) : x \in {Empty, Digit1, Zone1, zone1, Zone2, LongLoc, Handheld,
                                 Fill(FlatCategoryBudget + 1, 3), Good}}

\* ------------------------------------------------------- Python primitives
\* Truthiness of a filter value: None, 0 and "" are falsy.
Truthy(f) == CASE f.t = "none" -> FALSE
               [] f.t = "int"  -> f.n # 0
               [] f.t = "str"  -> Len(f.s) > 0

IsDigit(c) == c \in 48..57

RECURSIVE DecimalValue(_)
DecimalValue(s) == IF s = <<>> THEN 0
                   ELSE 10 * DecimalValue(SubSeq(s, 1, Len(s) - 1)) + (s[Len(s)] - 48)

\* Mutant: the conversion accepts any text.
IntOkAnyText(f) == TRUE

\* int(filter_value) succeeds on an int and on a str of decimal digits.
IntOk(f) == \/ f.t = "int"
            \/ f.t = "str" /\ Len(f.s) > 0 /\ \A i \in 1..Len(f.s) : IsDigit(f.s[i])
IntOf(f) == IF f.t = "int" THEN f.n ELSE DecimalValue(f.s)

\* str(n) for n >= 0
RECURSIVE StrNat(_)
StrNat(n) == IF n < 10 THEN <<48 + n>> ELSE StrNat(n \div 10) \o <<48 + (n % 10)>>

\* f"{filter_value}"
FormatFilter(f) == IF f.t = "int" THEN StrNat(f.n) ELSE f.s

\* s[:n]
Slice(s, n) == SubSeq(s, 1, IF Len(s) < n THEN Len(s) ELSE n)

\* Lexical order of Python strings (by code point; a proper prefix sorts first).
RECURSIVE StrLeq(_, _)
StrLeq(a, b) == IF a = <<>> THEN TRUE
                ELSE IF b = <<>> THEN FALSE
                ELSE IF a[1] # b[1] THEN a[1] < b[1]
                ELSE StrLeq(Tail(a), Tail(b))

RECURSIVE Insert(_, _)
Insert(x, s) == IF s = <<>> THEN <<x>>
                ELSE IF StrLeq(x, s[1]) THEN <<x>> \o s
                ELSE <<s[1]>> \o Insert(x, Tail(s))

\* Mutant: the locations are iterated in the order get_locations returned them.
Unsorted(s) == s

\* sorted(locations)
RECURSIVE Sorted(_)
Sorted(s) == IF s = <<>> THEN <<>> ELSE Insert(s[Len(s)], Sorted(SubSeq(s, 1, Len(s) - 1)))

\* items[items["id"] == k]: the rows that pass, in the frame's order
SelectById(frame, k) == SelectSeq(frame, LAMBDA r : r.id = k)

\* Mutant: the comparison ignores case.
Lower(x) == [i \in 1..Len(x) |-> IF x[i] \in 65..90 THEN x[i] + 32 ELSE x[i]]
SelectByFieldAnyCase(frame, col, f) ==
  SelectSeq(frame, LAMBDA r : f.t = "str" /\ Lower(r[col]) = Lower(f.s))

\* items[items[col] == filter_value] for a text column: a str matches the cells
\* equal to it character by character, an int matches no text cell.
SelectByField(frame, col, f) == SelectSeq(frame, LAMBDA r : f.t = "str" /\ r[col] = f.s)

\* Mutant: a field of exactly n characters is cut as well (>= for >).
TruncateAtBudget(x, n) == IF Len(x) >= n THEN SubSeq(x, 1, n) \o S_Ellipsis ELSE x

\* str(x)[:n] + "..." if len(str(x)) > n else str(x)
Truncate(x, n) == IF Len(x) > n THEN Slice(x, n) \o S_Ellipsis ELSE x

\* The notes cell: "" when the value is missing, else truncated like the others.
NotNa(x) == x # NaN
TruncateNotes(x, n) == IF NotNa(x) /\ Len(x) > n THEN Slice(x, n) \o S_Ellipsis
                       ELSE (IF NotNa(x) THEN x ELSE Empty)

\* ---------------------------------------------------------------- flowables
Paragraph(text, style) == [kind |-> "Paragraph", text |-> text, style |-> style]
Spacer(h) == [kind |-> "Spacer", height |-> h]

\* Mutant: every data row gets the same shade.
RowShadeUniform(i) == LightGrey

\* The background of data row i (row 0 is the header).
RowShade(i) == IF i % 2 = 0 THEN White ELSE LightGrey

\* Table(table_data) with the header style and the alternating row shades applied.
StyledTable(table_data, header_color) ==
  [kind |-> "Table", data |-> table_data, header_bg |-> header_color,
   row_bg |-> [i \in 1..(Len(table_data) - 1) |-> RowShade(i)]]

\* The strftime('%B %d, %Y') text of the day the report is generated:
\* "January 01, 2025".
Today == <<74, 97, 110, 117, 97, 114, 121, 32, 48, 49, 44, 32, 50, 48, 50, 53>>

\* ------------------------------------------------------ selection and title
\* The branch of the if/elif chain a request takes.
Branch(rt, f) == IF rt \in {"item", "location", "category", "condition"} /\ Truthy(f)
                 THEN rt ELSE "all"

SelectItems(all, rt, f) ==
  CASE Branch(rt, f) = "item"      -> SelectById(all, IntOf(f))
    [] Branch(rt, f) = "location"  -> SelectByField(all, "location", f)
    [] Branch(rt, f) = "category"  -> SelectByField(all, "category", f)
    [] Branch(rt, f) = "condition" -> SelectByField(all, "condition", f)
    [] OTHER                       -> all

\* The title, given the selected rows.
TitleOf(sel, rt, f) ==
  CASE Branch(rt, f) = "item"      ->
         S_Title \o S_Item \o (IF Len(sel) > 0 THEN sel[1].name ELSE S_NotFound)
    [] Branch(rt, f) = "location"  -> S_Title \o S_Location \o FormatFilter(f)
    [] Branch(rt, f) = "category"  -> S_Title \o S_Category \o FormatFilter(f)
    [] Branch(rt, f) = "condition" -> S_Title \o S_Condition \o FormatFilter(f)
    [] OTHER                       -> S_Title

\* ------------------------------------------------------------------ layout
HeaderElements(t) ==
  << Paragraph(t, "CustomTitle"), Paragraph(S_Generated \o Today, "Normal"), Spacer(20) >>

SummaryElements(sel, rt) ==
  IF rt = "complete" /\ Len(sel) > 0
  THEN << StyledTable(<< <<S_TotalItems, StrNat(Len(sel))>> >>, FlatHeaderColor), Spacer(20) >>
  ELSE << >>

FlatHeader == <<H_ItemName, H_Category, H_Location, H_Condition, H_Notes>>

FlatRow(item) ==
  << Truncate(item.name, FlatNameBudget),
     Truncate(item.category, FlatCategoryBudget),
     Truncate(item.location, FlatLocationBudget),
     item.condition,
     TruncateNotes(item.notes, FlatNotesBudget) >>

FlatTable(sel) ==
  StyledTable(<<FlatHeader>> \o [i \in 1..Len(sel) |-> FlatRow(sel[i])], FlatHeaderColor)

LocHeader == <<H_ItemName, H_Category, H_Condition, H_Notes>>

\* Mutant: the per-location rows use the flat table's budgets.
LocRowFlatBudgets(item) ==
  << Truncate(item.name, FlatNameBudget),
     Truncate(item.category, FlatCategoryBudget),
     item.condition,
     TruncateNotes(item.notes, FlatNotesBudget) >>

LocRow(item) ==
  << Truncate(item.name, LocNameBudget),
     Truncate(item.category, LocCategoryBudget),
     item.condition,
     TruncateNotes(item.notes, LocNotesBudget) >>

\* f"{location} ({len(location_items)} items)"
LocHeading(location, n) == location \o S_Open \o StrNat(n) \o S_ItemsClose

\* Mutant: every location gets a section, also one without items.
LocationSectionUnguarded(location, sel) ==
  LET location_items == SelectSeq(sel, LAMBDA r : r.location = location)
  IN  << Paragraph(LocHeading(location, Len(location_items)), "LocationHeader"),
         Spacer(10),
         StyledTable(<<LocHeader>> \o
                     [i \in 1..Len(location_items) |-> LocRow(location_items[i])],
                     LocHeaderColor),
         Spacer(20) >>

\* Mutant: the heading counts all selected items, not the location's.
LocationSectionTotalCount(location, sel) ==
  LET location_items == SelectSeq(sel, LAMBDA r : r.location = location)
  IN  IF Len(location_items) > 0
      THEN << Paragraph(LocHeading(location, Len(sel)), "LocationHeader"),
              Spacer(10),
              StyledTable(<<LocHeader>> \o
                          [i \in 1..Len(location_items) |-> LocRow(location_items[i])],
                          LocHeaderColor),
              Spacer(20) >>
      ELSE << >>

\* The flowables of one location of a complete report.
LocationSection(location, sel) ==
  LET location_items == SelectSeq(sel, LAMBDA r : r.location = location)
  IN  IF Len(location_items) > 0
      THEN << Paragraph(LocHeading(location, Len(location_items)), "LocationHeader"),
              Spacer(10),
              StyledTable(<<LocHeader>> \o
                          [i \in 1..Len(location_items) |-> LocRow(location_items[i])],
                          LocHeaderColor),
              Spacer(20) >>
      ELSE << >>

\* Mutant: the loop over the locations stops after the first one.
LocationSectionsFirstOnly(locs, sel) ==
  IF locs = <<>> THEN <<>> ELSE LocationSection(locs[1], sel)

\* for location in sorted(locations): ...
RECURSIVE LocationSections(_, _)
LocationSections(locs, sel) ==
  IF locs = <<>> THEN <<>>
  ELSE LocationSection(locs[1], sel) \o LocationSections(Tail(locs), sel)

\* Mutant: the flat table is built whether or not a filter value was given.
TableElementsAnyFilter(sel, rt, f, locs) ==
  IF rt \in {"category", "condition", "location"} /\ Len(sel) > 0
  THEN << FlatTable(sel) >>
  ELSE IF rt = "complete" /\ Len(sel) > 0
  THEN LocationSections(Sorted(locs), sel)
  ELSE << >>

\* Mutant: the flat table is built without the len(items) > 0 guard.
TableElementsUnguarded(sel, rt, f, locs) ==
  IF rt \in {"category", "condition", "location"} /\ Truthy(f)
  THEN << StyledTable(<<FlatHeader>> \o [i \in 1..Len(sel) |-> FlatRow(sel[i])],
                      FlatHeaderColor) >>
  ELSE IF rt = "complete" /\ Len(sel) > 0
  THEN LocationSections(Sorted(locs), sel)
  ELSE << >>

\* The tables after the header and the summary; locations is what
\* get_locations() returned.
TableElements(sel, rt, f, locations) ==
  IF rt \in {"category", "condition", "location"} /\ Truthy(f) /\ Len(sel) > 0
  THEN << FlatTable(sel) >>
  ELSE IF rt = "complete" /\ Len(sel) > 0
  THEN LocationSections(Sorted(locations), sel)
  ELSE << >>

\* ----------------------------------------------------------------- streams
\* io.BytesIO(): the document written so far and the stream position.
EmptyStream == [doc |-> "empty", elements |-> <<>>, pos |-> 0]

\* doc.build(elements) on a fresh stream: the whole document, position at the end.
Built(kind, els) == [doc |-> kind, elements |-> els, pos |-> Len(els)]

create_fallback_pdf ==
  Built("fallback", << Paragraph(F_Title, "Heading1"),
                       Paragraph(F_Line1, "Normal"),
                       Paragraph(F_Line2, "Normal") >>)

\* buffer.seek(0)
Seek0(b) == [b EXCEPT !.pos = 0]

\* ------------------------------------------------------------------- state
VARIABLES
  db_items,        \* the items table of the data store, in the order get_items returns it
  db_locations,    \* the locations the data store knows
  pc,              \* position of the call in generate_inventory_pdf
  report_type,     \* argument
  filter_value,    \* argument
  items,           \* local: the data frame, then the selected rows
  title,           \* local
  locations,       \* local: what get_locations() returned, <<>> before it is called
  elements,        \* local: the flowables appended so far
  buffer,          \* local: the stream that will be returned
  exc,             \* the exception raised inside the try block, "none" if none
  result,          \* what the caller received
  \* --- the Streamlit application (app.py); each step is one run of main()
  ss,              \* st.session_state: a function from the keys present to their values
  now,             \* the clock, in hours
  rendered,        \* the page the last run of main() rendered, "none" if it rendered none
  rerun,           \* TRUE when the last run ended in st.rerun()
  pw_result,       \* what change_password returned in the last run, "none" if not called
  dialog,          \* what confirm_action returned in the last run, "none" if not shown
  delete_call,     \* the id the last run passed to delete_item, 0 if it made no call
  \* --- concurrent calls of generate_inventory_pdf
  calls            \* the locals of each call in flight

\* The variables of the report generator's locals and of the application.
appVars == <<ss, now, rendered, rerun, pw_result, dialog, delete_call>>
pdfVars == <<db_locations, pc, report_type, filter_value, items, title,
             locations, elements, buffer, exc, result>>

vars == <<db_items, db_locations, pc, report_type, filter_value, items, title,
          locations, elements, buffer, exc, result,
          ss, now, rendered, rerun, pw_result, dialog, delete_call, calls>>

NoResult == [status |-> "none", stream |-> EmptyStream]
Returned(b) == [status |-> "returned", stream |-> b]

\* Item tables of at most MaxItems rows; ids are the autoincrement keys 1..n.
ItemTables ==
  UNION { { [i \in 1..n |-> [id |-> i, name |-> c[i].name, category |-> c[i].category,
                             location |-> c[i].location, condition |-> c[i].condition,
                             notes |-> c[i].notes]] : c \in [1..n -> ItemPool] }
          : n \in 0..MaxItems }

\* The orders in which get_locations may return a set of locations.
Orderings(S) == { s \in [1..Cardinality(S) -> S] : \A i, j \in 1..Cardinality(S) : s[i] = s[j] => i = j }

\* ============================================== concurrent report generation
\* Several calls of generate_inventory_pdf in flight at once (one Streamlit
\* session each) while other sessions add, update and delete items.  Every
\* call has its own locals; the data store is what they share.

Procs == {1, 2}

\* The requests made here: a complete report, and a location report.
ConcRequests == { [rt |-> "complete", f |-> FNone], [rt |-> "location", f |-> FStr(Zone1)] }

\* The rows the writers store.
StockA == [name |-> RadioA, category |-> Handheld, location |-> Zone1,
           condition |-> Good, notes |-> Empty]
StockB == [name |-> RadioB, category |-> Handheld, location |-> LongLoc,
           condition |-> Poor, notes |-> NaN]

WithId(row, k) == [id |-> k, name |-> row.name, category |-> row.category,
                   location |-> row.location, condition |-> row.condition,
                   notes |-> row.notes]

\* The locals of a call that has not been made.
IdleCall ==
  [pc |-> "idle", report_type |-> "complete", filter_value |-> FNone, items |-> <<>>,
   title |-> <<>>, locations |-> <<>>, elements |-> <<>>, buffer |-> EmptyStream,
   exc |-> "none", result |-> NoResult]

\* No call is in flight.
ConcIdle == calls = [p \in Procs |-> IdleCall]

\* A browser session before the first run of main(): no key is set.
EmptySession == [k \in {} |-> FALSE]

\* No run of main() has happened.
AppIdle ==
  /\ ss = EmptySession
  /\ now = 0
  /\ rendered = "none"
  /\ rerun = FALSE
  /\ pw_result = "none"
  /\ dialog = "none"
  /\ delete_call = 0

\* No call of generate_inventory_pdf is in progress.
PdfIdle ==
  /\ db_locations = KnownLocations
  /\ pc = "idle"
  /\ report_type = "complete"
  /\ filter_value = FNone
  /\ items = <<>>
  /\ title = <<>>
  /\ locations = <<>>
  /\ elements = <<>>
  /\ buffer = EmptyStream
  /\ exc = "none"
  /\ result = NoResult

Init ==
  /\ db_items \in ItemTables
  /\ PdfIdle
  /\ AppIdle
  /\ ConcIdle

\* except Exception: every exception a step raises is an Exception.
ExceptionKinds == {"DataAccessError", "ValueError", "LayoutError"}
\* Mutant: the handler catches the layout library's errors only.
HandlesLayoutOnly(e) == e = "LayoutError"
Handles(e) == e \in ExceptionKinds

\* Mutant: a failed step starts the render over.
RaiseAndRetry(e) ==
  /\ exc' = e
  /\ pc' = "get_items"

\* A step inside the try block raises e.
Raise(e) ==
  /\ exc' = e
  /\ pc' = IF Handles(e) THEN "except" ELSE "raised"

\* generate_inventory_pdf(report_type, filter_value) is entered: lines 31-47.
Call ==
  /\ pc = "idle"
  /\ \E rt \in ReportTypes, f \in FilterValues :
       /\ report_type' = rt
       /\ filter_value' = f
  /\ buffer' = EmptyStream
  /\ items' = <<>>
  /\ title' = <<>>
  /\ locations' = <<>>
  /\ elements' = <<>>
  /\ exc' = "none"
  /\ result' = NoResult
  /\ pc' = "get_items"
  /\ UNCHANGED <<db_items, db_locations>>
  /\ UNCHANGED <<appVars, calls>>

\* items = get_items()
GetItems ==
  /\ pc = "get_items"
  /\ \/ /\ items' = db_items
        /\ pc' = "select"
        /\ UNCHANGED exc
     \/ /\ Raise("DataAccessError")
        /\ UNCHANGED items
  /\ UNCHANGED <<db_items, db_locations, report_type, filter_value, title, locations,
                 elements, buffer, result>>
  /\ UNCHANGED <<appVars, calls>>

\* Mutant: the selection filters the stored table in place.
SelectInPlace ==
  /\ pc = "select"
  /\ ~(Branch(report_type, filter_value) = "item" /\ ~IntOk(filter_value))
  /\ items' = SelectItems(items, report_type, filter_value)
  /\ db_items' = items'
  /\ title' = TitleOf(items', report_type, filter_value)
  /\ pc' = "layout"
  /\ UNCHANGED <<db_locations, report_type, filter_value, locations, elements,
                 buffer, exc, result>>
  /\ UNCHANGED <<appVars, calls>>

\* The if/elif chain of lines 52-65.
Select ==
  /\ pc = "select"
  /\ IF Branch(report_type, filter_value) = "item" /\ ~IntOk(filter_value)
     THEN /\ Raise("ValueError")
          /\ UNCHANGED <<items, title>>
     ELSE /\ items' = SelectItems(items, report_type, filter_value)
          /\ title' = TitleOf(items', report_type, filter_value)
          /\ pc' = "layout"
          /\ UNCHANGED exc
  /\ UNCHANGED <<db_items, db_locations, report_type, filter_value, locations, elements,
                 buffer, result>>
  /\ UNCHANGED <<appVars, calls>>

\* get_locations() is called only on the complete branch (line 154).
NeedsLocations(sel, rt) == rt = "complete" /\ Len(sel) > 0

\* Lines 67-221: title, timestamp, summary, tables.
Layout ==
  /\ pc = "layout"
  /\ \/ /\ \E locs \in (IF NeedsLocations(items, report_type)
                        THEN Orderings(db_locations) ELSE {<<>>}) :
             /\ locations' = locs
             /\ elements' = HeaderElements(title)
                              \o SummaryElements(items, report_type)
                              \o TableElements(items, report_type, filter_value, locs)
        /\ pc' = "build"
        /\ UNCHANGED exc
     \/ /\ Raise("LayoutError")
        /\ UNCHANGED <<locations, elements>>
     \/ /\ NeedsLocations(items, report_type)
        /\ Raise("DataAccessError")
        /\ UNCHANGED <<locations, elements>>
  /\ UNCHANGED <<db_items, db_locations, report_type, filter_value, items, title,
                 buffer, result>>
  /\ UNCHANGED <<appVars, calls>>

\* doc.build(elements): a failing build may leave part of the document in the buffer.
Build ==
  /\ pc = "build"
  /\ \/ /\ buffer' = Built("main", elements)
        /\ pc' = "return"
        /\ UNCHANGED exc
     \/ /\ \E k \in {0, 1} :
             buffer' = [doc |-> "partial", elements |-> SubSeq(elements, 1, k), pos |-> k]
        /\ Raise("LayoutError")
  /\ UNCHANGED <<db_items, db_locations, report_type, filter_value, items, title,
                 locations, elements, result>>
  /\ UNCHANGED <<appVars, calls>>

\* Mutant: the fallback document is written into the main buffer, after
\* whatever the failed build left there.
FallbackIntoMainBuffer ==
  /\ pc = "except"
  /\ buffer' = Built("fallback", buffer.elements \o create_fallback_pdf.elements)
  /\ pc' = "return"
  /\ UNCHANGED <<db_items, db_locations, report_type, filter_value, items, title,
                 locations, elements, exc, result>>
  /\ UNCHANGED <<appVars, calls>>

\* The except handler: buffer = create_fallback_pdf()
Fallback ==
  /\ pc = "except"
  /\ buffer' = create_fallback_pdf
  /\ pc' = "return"
  /\ UNCHANGED <<db_items, db_locations, report_type, filter_value, items, title,
                 locations, elements, exc, result>>
  /\ UNCHANGED <<appVars, calls>>

\* buffer.seek(0); return buffer
Return ==
  /\ pc = "return"
  /\ buffer' = Seek0(buffer)
  /\ result' = Returned(buffer')
  /\ pc' = "done"
  /\ UNCHANGED <<db_items, db_locations, report_type, filter_value, items, title,
                 locations, elements, exc>>
  /\ UNCHANGED <<appVars, calls>>

\* The caller has consumed the stream (st.download_button, a file write): the
\* call's locals and the document are gone, the next request can be made.
Discard ==
  /\ pc = "done"
  /\ pc' = "idle"
  /\ report_type' = "complete"
  /\ filter_value' = FNone
  /\ items' = <<>>
  /\ title' = <<>>
  /\ locations' = <<>>
  /\ elements' = <<>>
  /\ buffer' = EmptyStream
  /\ exc' = "none"
  /\ result' = NoResult
  /\ UNCHANGED <<db_items, db_locations>>
  /\ UNCHANGED <<appVars, calls>>

Next == Call \/ GetItems \/ Select \/ Layout \/ Build \/ Fallback \/ Return \/ Discard

Spec == Init /\ [][Next]_vars

TypeOK ==
  /\ pc \in {"idle", "get_items", "select", "layout", "build", "except", "return", "done", "raised"}
  /\ report_type \in ReportTypes
  /\ filter_value \in FilterValues
  /\ exc \in ExceptionKinds \cup {"none"}
  /\ result.status \in {"none", "returned"}

\* ====================================================== the application
\* app.py under Streamlit: every user event and every st.rerun() runs main()
\* once, from its first line, against st.session_state.  An action below is
\* one such run.

\* --------------------------------------------------------------- bounds
MaxTime       == 3      \* the clock stops here
SessionExpiry == 1      \* SESSION_EXPIRY_HOURS of config.py

\* ---------------------------------------------------------------- values
Supervisor == "corrections_supervisor"
Roles      == {Supervisor, "employee"}
Usernames  == {"alice", "bob"}

\* None where a user record, an item id, a username or a datetime is expected.
NoUser     == [none |-> TRUE]
NoId       == 0
NoEmployee == ""
NoTime     == 0 - 1

\* The user records authenticate_user may hand back.
UserRecords ==
  [username : Usernames, role : Roles, password_change_required : BOOLEAN]

\* What authenticate_user returns: (user_data, error_message).
AuthResults == [user_data : UserRecords \cup {NoUser}, error_message : BOOLEAN]

\* The views main() dispatches on; any other value of view is unknown to it.
AppViews   == {"dashboard", "inventory", "add", "edit", "admin_dashboard", "edit_employee"}
AdminViews == {"admin_dashboard", "edit_employee"}
Views      == AppViews \cup {"login", "bogus"}

\* The items table of the application: rows of one stock radio.
StockTables == { t \in ItemTables : \A i \in 1..Len(t) : t[i].name = RadioA }

ItemIds(frame) == { frame[i].id : i \in 1..Len(frame) }

\* ------------------------------------------------------ st.session_state
Set(s, k, v) == [x \in DOMAIN s \cup {k} |-> IF x = k THEN v ELSE s[x]]

Defaults ==
  [authenticated |-> FALSE, user |-> NoUser, view |-> "login", edit_item |-> NoId,
   edit_employee |-> NoEmployee, search_query |-> "", filter_category |-> "",
   filter_location |-> "", show_filters |-> FALSE, session_start |-> NoTime]

\* Every default whose key is absent is set; a key that is present keeps its value.
init_session_state(s) ==
  [x \in DOMAIN s \cup DOMAIN Defaults |-> IF x \in DOMAIN s THEN s[x] ELSE Defaults[x]]

\* Mutant: only authenticated and user are reset; every other key stays.
ResetSessionKeepKeys ==
  Set(Set(init_session_state(ss), "authenticated", FALSE), "user", NoUser)

\* for key in list(st.session_state.keys()): del st.session_state[key]
\* followed by init_session_state().
ResetSession == init_session_state(EmptySession)

RoleView(u) == IF u.role = Supervisor THEN "admin_dashboard" ELSE "dashboard"

\* Mutant: a session whose age equals the limit counts as expired.
ExpiredAtLimit(s, t) ==
  /\ s.authenticated /\ s.user # NoUser
  /\ s.session_start # NoTime
  /\ t - s.session_start >= SessionExpiry

\* check_session_timeout: its return value (None counts as False) and the
\* session state it leaves.
Expired(s, t) ==
  /\ s.authenticated /\ s.user # NoUser
  /\ s.session_start # NoTime
  /\ t - s.session_start > SessionExpiry

Stamp(s, t) ==
  IF s.authenticated /\ s.user # NoUser /\ s.session_start = NoTime
  THEN Set(s, "session_start", t)
  ELSE s

\* Mutant: the session is marked authenticated before the result is looked at.
handle_login_eager(s, r) ==
  IF r.error_message \/ r.user_data = NoUser
  THEN [ok |-> FALSE, s |-> Set(s, "authenticated", TRUE)]
  ELSE [ok |-> TRUE,
        s  |-> Set(Set(Set(s, "user", r.user_data), "authenticated", TRUE),
                   "view", RoleView(r.user_data))]

\* Mutant: a failed login leaves the view of the role behind.
handle_login_view_first(s, r) ==
  IF r.error_message THEN [ok |-> FALSE, s |-> s]
  ELSE IF r.user_data = NoUser THEN [ok |-> FALSE, s |-> Set(s, "view", "dashboard")]
  ELSE [ok |-> TRUE,
        s  |-> Set(Set(Set(s, "user", r.user_data), "authenticated", TRUE),
                   "view", RoleView(r.user_data))]

\* handle_login on the result r of authenticate_user: success, and the session.
handle_login(s, r) ==
  IF r.error_message THEN [ok |-> FALSE, s |-> s]
  ELSE IF r.user_data = NoUser THEN [ok |-> FALSE, s |-> s]
  ELSE [ok |-> TRUE,
        s  |-> Set(Set(Set(s, "user", r.user_data), "authenticated", TRUE),
                   "view", RoleView(r.user_data))]

\* ------------------------------------------------------------- one run
\* What a run leaves behind: the session, the page it rendered, whether it
\* ended in st.rerun().
Ends(s, page, again) ==
  /\ ss' = s
  /\ rendered' = page
  /\ rerun' = again

\* The run called neither change_password nor confirm_action nor delete_item.
Quiet ==
  /\ pw_result' = "none"
  /\ dialog' = "none"
  /\ delete_call' = 0

\* A run that is the rerun of the one before it carries no user event.
UserEvent == ~rerun

\* The part of main() every authenticated run goes through before the
\* dispatch: the session has not expired and Logout was not clicked.
Entered(s) == s.authenticated /\ s.user # NoUser /\ ~Expired(s, now)

\* main(), not authenticated: show_login_page.  The form is left alone, or
\* submitted with a field missing, or submitted and handed to handle_login.
ShowLoginPage ==
  LET s == init_session_state(ss) IN
  /\ ~s.authenticated
  /\ \/ Ends(s, "login", FALSE)
     \/ /\ UserEvent
        /\ \E r \in AuthResults :
             LET h == handle_login(s, r) IN Ends(h.s, "login", h.ok)
  /\ Quiet
  /\ UNCHANGED <<db_items, now>>
  /\ UNCHANGED <<pdfVars, calls>>

\* main(), authenticated, check_session_timeout() is True: every key is
\* deleted, the defaults are set, the script reruns.
SessionTimeout ==
  LET s == init_session_state(ss) IN
  /\ s.authenticated
  /\ Expired(s, now)
  /\ Ends(ResetSession, "none", TRUE)
  /\ Quiet
  /\ UNCHANGED <<db_items, now>>
  /\ UNCHANGED <<pdfVars, calls>>

\* main(), authenticated, render_sidebar_navigation returns True (Logout was
\* clicked).  With no user record the call's argument raises and main()'s
\* handler ends the run.
Logout ==
  LET s == init_session_state(ss) IN
  /\ s.authenticated
  /\ ~Expired(s, now)
  /\ IF s.user = NoUser
     THEN Ends(s, "none", FALSE)
     ELSE UserEvent /\ Ends(ResetSession, "none", TRUE)
  /\ Quiet
  /\ UNCHANGED <<db_items, now>>
  /\ UNCHANGED <<pdfVars, calls>>

\* main(), authenticated, a click in the sidebar: render_sidebar_navigation
\* (ui_components) assigns the view and reruns.  Any view may be assigned.
Navigate ==
  LET s == Stamp(init_session_state(ss), now) IN
  /\ Entered(s)
  /\ UserEvent
  /\ \E v \in Views : Ends(Set(s, "view", v), "none", TRUE)
  /\ Quiet
  /\ UNCHANGED <<db_items, now>>
  /\ UNCHANGED <<pdfVars, calls>>

\* Time passes between two runs.
Tick ==
  /\ now < MaxTime
  /\ now' = now + 1
  /\ UNCHANGED <<db_items, ss, rendered, rerun, pw_result, dialog, delete_call>>
  /\ UNCHANGED <<pdfVars, calls>>

\* ------------------------------------------- forced password change
\* The session once change_password has reported success.
PasswordChanged(s) ==
  Set(Set(Set(s, "user", [s.user EXCEPT !.password_change_required = FALSE]),
          "authenticated", TRUE),
      "view", RoleView(s.user))

\* Mutant: the flag is cleared whatever change_password reports.
AfterChangePasswordAlways(s, success) == PasswordChanged(s)

\* The session after change_password has returned success or failure.
AfterChangePassword(s, success) == IF success THEN PasswordChanged(s) ELSE s

\* force_password_change_screen: submit is "none" (form left alone),
\* "invalid" (passwords empty, different or too weak) or "change"
\* (change_password is called and returns success).
force_password_change_screen(s, submit, success) ==
  IF ~s.authenticated \/ s.user = NoUser
  THEN [s |-> Set(s, "view", "login"), page |-> "none", again |-> TRUE]
  ELSE IF ~s.user.password_change_required
  THEN [s |-> Set(s, "view", RoleView(s.user)), page |-> "none", again |-> TRUE]
  ELSE IF submit = "change"
  THEN [s |-> AfterChangePassword(s, success), page |-> "password_change", again |-> success]
  ELSE [s |-> s, page |-> "password_change", again |-> FALSE]

\* main()'s test of the logged-in user's password_change_required flag.
MustChangePassword(s) == s.user.password_change_required

\* main(), authenticated, the flag is set: force_password_change_screen.
ForcePasswordChange ==
  LET s == Stamp(init_session_state(ss), now) IN
  /\ Entered(s)
  /\ MustChangePassword(s)
  /\ \E submit \in {"none", "invalid", "change"}, success \in BOOLEAN :
       LET f == force_password_change_screen(s, submit, success) IN
       /\ submit # "none" => UserEvent
       /\ Ends(f.s, f.page, f.again)
       /\ pw_result' = IF submit # "change" THEN "none"
                       ELSE IF success THEN "success" ELSE "failure"
  /\ dialog' = "none"
  /\ delete_call' = 0
  /\ UNCHANGED <<db_items, now>>
  /\ UNCHANGED <<pdfVars, calls>>

\* ------------------------------------------------------------ dispatch
\* main() has reached the dispatch on the view, and the view is v.
Dispatched(s, v) == Entered(s) /\ ~MustChangePassword(s) /\ s.view = v

\* Mutant: the admin views are open to every role.
MayOpenAdminAnyRole(s) == TRUE

\* main()'s guard in front of admin_dashboard_page and edit_employee_page.
MayOpenAdmin(s) == s.user.role = Supervisor

\* main(), view "dashboard": dashboard_page.  Adding or deleting a post
\* reruns; nothing in the session changes.
DashboardPage ==
  LET s == Stamp(init_session_state(ss), now) IN
  /\ Dispatched(s, "dashboard")
  /\ \E again \in BOOLEAN : (again => UserEvent) /\ Ends(s, "dashboard", again)
  /\ Quiet
  /\ UNCHANGED <<db_items, now>>
  /\ UNCHANGED <<pdfVars, calls>>

\* main(), a view it does not know: the view becomes "dashboard".
UnknownView ==
  LET s == Stamp(init_session_state(ss), now) IN
  /\ Entered(s)
  /\ ~MustChangePassword(s)
  /\ s.view \notin AppViews
  /\ Ends(Set(s, "view", "dashboard"), "none", TRUE)
  /\ Quiet
  /\ UNCHANGED <<db_items, now>>
  /\ UNCHANGED <<pdfVars, calls>>

\* Mutant: the user turned away is sent to the admin dashboard.
AccessDeniedToAdmin ==
  LET s == Stamp(init_session_state(ss), now) IN
  /\ Entered(s)
  /\ ~MustChangePassword(s)
  /\ s.view \in AdminViews
  /\ ~MayOpenAdmin(s)
  /\ Ends(Set(s, "view", "admin_dashboard"), "none", TRUE)
  /\ Quiet
  /\ UNCHANGED <<db_items, now>>
  /\ UNCHANGED <<pdfVars, calls>>

\* main(), an admin view and a user the guard turns away.
AccessDenied ==
  LET s == Stamp(init_session_state(ss), now) IN
  /\ Entered(s)
  /\ ~MustChangePassword(s)
  /\ s.view \in AdminViews
  /\ ~MayOpenAdmin(s)
  /\ Ends(Set(s, "view", "dashboard"), "none", TRUE)
  /\ Quiet
  /\ UNCHANGED <<db_items, now>>
  /\ UNCHANGED <<pdfVars, calls>>

\* admin_dashboard_page: its own role check, then the page; the Edit button
\* of an employee selects that employee.
AdminDashboardPage ==
  LET s == Stamp(init_session_state(ss), now) IN
  /\ Dispatched(s, "admin_dashboard")
  /\ MayOpenAdmin(s)
  /\ IF s.user.role # Supervisor
     THEN Ends(Set(s, "view", "dashboard"), "none", TRUE)
     ELSE \/ \E again \in BOOLEAN : (again => UserEvent) /\ Ends(s, "admin_dashboard", again)
          \/ /\ UserEvent
             /\ \E u \in Usernames :
                  Ends(Set(Set(s, "edit_employee", u), "view", "edit_employee"),
                       "admin_dashboard", TRUE)
  /\ Quiet
  /\ UNCHANGED <<db_items, now>>
  /\ UNCHANGED <<pdfVars, calls>>

\* edit_employee_page: back to the admin dashboard when no employee is
\* selected or get_employee finds none; else the form, left alone, saved or
\* cancelled.
EditEmployeePage ==
  LET s == Stamp(init_session_state(ss), now) IN
  /\ Dispatched(s, "edit_employee")
  /\ MayOpenAdmin(s)
  /\ IF "edit_employee" \notin DOMAIN s \/ s.edit_employee = NoEmployee
     THEN Ends(Set(s, "view", "admin_dashboard"), "none", TRUE)
     ELSE \/ Ends(Set(s, "view", "admin_dashboard"), "none", TRUE)
          \/ Ends(s, "edit_employee", FALSE)
          \/ UserEvent /\ Ends(Set(s, "view", "admin_dashboard"), "edit_employee", TRUE)
  /\ Quiet
  /\ UNCHANGED <<db_items, now>>
  /\ UNCHANGED <<pdfVars, calls>>

\* ----------------------------------------------------------- inventory
PendingDelete(s) == s.delete_item_id # NoId /\ s.show_delete_confirm

\* Mutant: only show_delete_confirm is reset, the selected id stays.
ClearDeleteKeepId(s) ==
  Set(Set(s, "delete_item_id",
          IF "delete_item_id" \in DOMAIN s THEN s.delete_item_id ELSE NoId),
      "show_delete_confirm", FALSE)

ClearDelete(s) == Set(Set(s, "delete_item_id", NoId), "show_delete_confirm", FALSE)

\* inventory_page sets the two keys when delete_item_id is absent.
WithDeleteKeys(s) == IF "delete_item_id" \in DOMAIN s THEN s ELSE ClearDelete(s)

\* The items table without the row of the given id.
Remove(frame, id) == SelectSeq(frame, LAMBDA r : r.id # id)

\* Mutant: the delete button selects the item for every role.
delete_click_any_role(s, id) ==
  Set(Set(s, "delete_item_id", id), "show_delete_confirm", TRUE)

\* The delete button of item id was clicked.
delete_click(s, id) ==
  IF s.user.role = Supervisor
  THEN Set(Set(s, "delete_item_id", id), "show_delete_confirm", TRUE)
  ELSE s

\* confirm_action's return value counts as true only for a confirmation.
Confirmed(answer) == answer = "yes"

\* main(), view "inventory", handle_delete_confirmation returns to the
\* page: nothing is pending, or the selected item is gone, or the dialog
\* stays open.  Then the list with its Edit and Delete buttons.
InventoryPage ==
  LET s0 == WithDeleteKeys(Stamp(init_session_state(ss), now))
      gone == PendingDelete(s0) /\ s0.delete_item_id \notin ItemIds(db_items)
      s == IF gone THEN ClearDelete(s0) ELSE s0
  IN
  /\ Dispatched(s0, "inventory")
  /\ IF PendingDelete(s0) /\ ~gone
     THEN ~Confirmed("open") /\ dialog' = "open"
     ELSE dialog' = "none"
  /\ \/ Ends(s, "inventory", FALSE)
     \/ /\ UserEvent
        /\ \E id \in ItemIds(db_items) :
             \/ Ends(Set(Set(s, "edit_item_id", id), "view", "edit"), "inventory", TRUE)
             \/ Ends(delete_click(s, id), "inventory", TRUE)
  /\ pw_result' = "none"
  /\ delete_call' = 0
  /\ UNCHANGED <<db_items, now>>
  /\ UNCHANGED <<pdfVars, calls>>

\* main(), view "inventory", handle_delete_confirmation with the dialog
\* answered: on a confirmation delete_item is called (it deletes, reports
\* failure or raises), on a cancel it is not; the pending delete is cleared
\* and the script reruns.
DeleteConfirmation ==
  LET s == WithDeleteKeys(Stamp(init_session_state(ss), now)) IN
  /\ Dispatched(s, "inventory")
  /\ PendingDelete(s)
  /\ s.delete_item_id \in ItemIds(db_items)
  /\ \E answer \in {"yes", "no", "open"} :
       /\ dialog' = answer
       /\ Confirmed(answer) \/ answer = "no"
       /\ IF Confirmed(answer)
          THEN /\ delete_call' = s.delete_item_id
               /\ \E outcome \in {"deleted", "failed", "raised"} :
                    db_items' = IF outcome = "deleted"
                                THEN Remove(db_items, s.delete_item_id)
                                ELSE db_items
          ELSE /\ delete_call' = 0
               /\ UNCHANGED db_items
  /\ Ends(ClearDelete(s), "inventory", TRUE)
  /\ pw_result' = "none"
  /\ UNCHANGED now
  /\ UNCHANGED <<pdfVars, calls>>

\* Another session deletes an item.
ItemDeletedElsewhere ==
  /\ \E id \in ItemIds(db_items) : db_items' = Remove(db_items, id)
  /\ UNCHANGED <<ss, now, rendered, rerun, pw_result, dialog, delete_call>>
  /\ UNCHANGED <<pdfVars, calls>>

\* The autoincrement key of the next item.
NextId(frame) == IF frame = <<>> THEN 1 ELSE frame[Len(frame)].id + 1

\* main(), view "add": add_item_page.  The form is left alone or refused;
\* or add_item stores the item, or Cancel is clicked, and the view becomes
\* "inventory".
AddItemPage ==
  LET s == Stamp(init_session_state(ss), now) IN
  /\ Dispatched(s, "add")
  /\ \/ Ends(s, "add", FALSE) /\ UNCHANGED db_items
     \/ /\ UserEvent
        /\ Ends(Set(s, "view", "inventory"), "add", TRUE)
        /\ \/ UNCHANGED db_items
           \/ /\ NextId(db_items) <= MaxItems
              /\ db_items' = Append(db_items,
                   [id |-> NextId(db_items), name |-> RadioA, category |-> Handheld,
                    location |-> Zone1, condition |-> Good, notes |-> Empty])
  /\ Quiet
  /\ UNCHANGED now
  /\ UNCHANGED <<pdfVars, calls>>

\* main(), view "edit": edit_item_page.  Back to the inventory when no item
\* is selected or the selected one is gone; else the form, left alone, or
\* saved or cancelled.
EditItemPage ==
  LET s == Stamp(init_session_state(ss), now) IN
  /\ Dispatched(s, "edit")
  /\ IF "edit_item_id" \in DOMAIN s /\ s.edit_item_id # NoId
     THEN IF s.edit_item_id \notin ItemIds(db_items)
          THEN Ends(Set(Set(s, "edit_item_id", NoId), "view", "inventory"), "none", TRUE)
          ELSE \/ Ends(s, "edit", FALSE)
               \/ /\ UserEvent
                  /\ Ends(Set(Set(s, "edit_item_id", NoId), "view", "inventory"), "edit", TRUE)
     ELSE Ends(Set(s, "view", "inventory"), "none", TRUE)
  /\ Quiet
  /\ UNCHANGED <<db_items, now>>
  /\ UNCHANGED <<pdfVars, calls>>

\* ------------------------------------------------------- specification
AppInit ==
  /\ db_items \in StockTables
  /\ PdfIdle
  /\ AppIdle
  /\ ConcIdle

NextApp ==
  \/ ShowLoginPage \/ SessionTimeout \/ Logout \/ Navigate
  \/ ForcePasswordChange
  \/ DashboardPage \/ InventoryPage \/ DeleteConfirmation \/ AddItemPage \/ EditItemPage
  \/ AdminDashboardPage \/ EditEmployeePage
  \/ AccessDenied \/ UnknownView
  \/ ItemDeletedElsewhere \/ Tick

SpecApp == AppInit /\ [][NextApp]_vars

\* ------------------------------------------------- reruns without input
\* A logged-in session with no password change pending, in any combination
\* of view, role, selected item and selected employee, about to be rerun.
RedirectSessions ==
  { [k \in DOMAIN Defaults \cup (IF e < NoId THEN {} ELSE {"edit_item_id"}) |->
       CASE k = "authenticated" -> TRUE
         [] k = "user"          -> u
         [] k = "view"          -> v
         [] k = "edit_item_id"  -> e
         [] k = "edit_employee" -> emp
         [] k = "session_start" -> t
         [] OTHER               -> Defaults[k]] :
    u \in {x \in UserRecords : ~x.password_change_required},
    v \in Views,
    e \in (NoId - 1)..MaxItems,          \* below NoId: the key is absent
    emp \in {NoEmployee} \cup Usernames,
    t \in {NoTime, 0} }

RedirectInit ==
  /\ db_items \in StockTables
  /\ PdfIdle
  /\ ConcIdle
  /\ ss \in RedirectSessions
  /\ now = 0
  /\ rendered = "none"
  /\ rerun = TRUE
  /\ pw_result = "none"
  /\ dialog = "none"
  /\ delete_call = 0

\* The runs of main() that st.rerun() starts: no widget reports a click.
RedirectRuns ==
  \/ rerun /\ ShowLoginPage
  \/ rerun /\ SessionTimeout
  \/ rerun /\ DashboardPage
  \/ rerun /\ InventoryPage
  \/ rerun /\ AddItemPage
  \/ rerun /\ EditItemPage
  \/ rerun /\ AdminDashboardPage
  \/ rerun /\ EditEmployeePage
  \/ rerun /\ AccessDenied
  \/ rerun /\ UnknownView

\* Meanwhile time passes and other sessions delete items.
NextRedirect ==
  \/ RedirectRuns
  \/ rerun /\ Tick
  \/ rerun /\ ItemDeletedElsewhere

\* A requested rerun is carried out.
SpecRedirect == RedirectInit /\ [][NextRedirect]_vars /\ WF_vars(RedirectRuns)

\* ----------------------------------- the steps of a concurrent call
\* Between the read of the items and the return a call touches nothing but
\* its own locals and the locations, which no writer changes: these lines are
\* one step here.  Locals that are dead once a step has raised are dropped.

\* A step inside the try block of call c raises e.
Raised(c, e) ==
  [IdleCall EXCEPT !.report_type = c.report_type, !.filter_value = c.filter_value,
                   !.exc = e, !.pc = IF Handles(e) THEN "except" ELSE "raised"]

\* Call p moves on to the locals c; nothing else moves.
Moves(p, c) ==
  /\ calls' = [calls EXCEPT ![p] = c]
  /\ UNCHANGED <<db_items, pdfVars, appVars>>

\* generate_inventory_pdf(report_type, filter_value) is entered.
ConcCall(p) ==
  /\ calls[p].pc = "idle"
  /\ \E rq \in ConcRequests :
       Moves(p, [IdleCall EXCEPT !.pc = "get_items", !.report_type = rq.rt,
                                 !.filter_value = rq.f])

\* items = get_items(): the one read of the items table.
ConcGetItems(p) ==
  /\ calls[p].pc = "get_items"
  /\ \/ Moves(p, [calls[p] EXCEPT !.items = db_items, !.pc = "render"])
     \/ Moves(p, Raised(calls[p], "DataAccessError"))

\* Mutant: the tables are laid out from the items table as it is now.
ConcElementsReread(c, sel, locs) ==
  HeaderElements(TitleOf(sel, c.report_type, c.filter_value))
    \o SummaryElements(sel, c.report_type)
    \o TableElements(SelectItems(db_items, c.report_type, c.filter_value),
                     c.report_type, c.filter_value, locs)

\* Lines 67-221 on the selected rows sel of call c; locs is what
\* get_locations() returned.
ConcElements(c, sel, locs) ==
  HeaderElements(TitleOf(sel, c.report_type, c.filter_value))
    \o SummaryElements(sel, c.report_type)
    \o TableElements(sel, c.report_type, c.filter_value, locs)

\* Selection, layout, doc.build, buffer.seek(0), return: lines 52-232 on the
\* frame read before; or one of these steps raises.
ConcRender(p) ==
  LET c == calls[p]
      sel == SelectItems(c.items, c.report_type, c.filter_value)
  IN
  /\ c.pc = "render"
  /\ \/ \E locs \in (IF NeedsLocations(sel, c.report_type)
                     THEN {Sorted(o) : o \in Orderings(db_locations)} ELSE {<<>>}) :
          LET b == Seek0(Built("main", ConcElements(c, sel, locs)))
          IN  Moves(p, [c EXCEPT !.title = TitleOf(sel, c.report_type, c.filter_value),
                                 !.buffer = b, !.result = Returned(b), !.pc = "done"])
     \/ Moves(p, Raised(c, "LayoutError"))

\* The except handler and the return: buffer = create_fallback_pdf(),
\* buffer.seek(0), return buffer.
ConcFallback(p) ==
  LET b == Seek0(create_fallback_pdf) IN
  /\ calls[p].pc = "except"
  /\ Moves(p, [calls[p] EXCEPT !.buffer = b, !.result = Returned(b), !.pc = "done"])

\* The caller has consumed the stream.
ConcDiscard(p) ==
  /\ calls[p].pc = "done"
  /\ Moves(p, IdleCall)

\* Another session stores a new item (add_item).
WriterAdds ==
  /\ NextId(db_items) <= MaxItems
  /\ \E row \in {StockA, StockB} :
       db_items' = Append(db_items, WithId(row, NextId(db_items)))
  /\ UNCHANGED <<calls, pdfVars, appVars>>

\* Another session changes an item (update_item).
WriterUpdates ==
  /\ \E i \in 1..Len(db_items), row \in {StockA, StockB} :
       /\ WithId(row, db_items[i].id) # db_items[i]
       /\ db_items' = [db_items EXCEPT ![i] = WithId(row, db_items[i].id)]
  /\ UNCHANGED <<calls, pdfVars, appVars>>

\* Another session deletes an item (delete_item).
WriterDeletes ==
  /\ \E id \in ItemIds(db_items) : db_items' = Remove(db_items, id)
  /\ UNCHANGED <<calls, pdfVars, appVars>>

ConcInit ==
  /\ db_items \in { t \in ItemTables : \A i \in 1..Len(t) : t[i].name \in {RadioA, RadioB} }
  /\ PdfIdle
  /\ AppIdle
  /\ ConcIdle

NextConc ==
  \/ \E p \in Procs : ConcCall(p)
  \/ \E p \in Procs : ConcGetItems(p)
  \/ \E p \in Procs : ConcRender(p)
  \/ \E p \in Procs : ConcFallback(p)
  \/ \E p \in Procs : ConcDiscard(p)
  \/ WriterAdds \/ WriterUpdates \/ WriterDeletes

SpecConc == ConcInit /\ [][NextConc]_vars

\* ===================================================================== claims
\* What the caller holds once the call has returned.
Done       == pc = "done"
Doc        == result.stream.elements
IsMain     == result.status = "returned" /\ result.stream.doc = "main"
IsFallback == result.status = "returned" /\ result.stream.doc = "fallback"

\* A failure of a collaborator (the data access layer, the layout library), as
\* opposed to one the request itself causes.
ExternalFault == exc \in {"DataAccessError", "LayoutError"}

\* The tables of the returned document, in order, and the data rows of a table.
TablesOf(d) == SelectSeq(d, LAMBDA e : e.kind = "Table")
DataRows(t) == SubSeq(t.data, 2, Len(t.data))

\* t contains v as a contiguous run of characters.
Contains(t, v) == \E k \in 0..(Len(t) - Len(v)) : SubSeq(t, k + 1, k + Len(v)) = v

\* cell shows field under a budget: the field itself when it fits, else its
\* first budget characters followed by "...".
Shows(cell, field, budget) ==
  IF Len(field) <= budget THEN cell = field
  ELSE /\ Len(cell) = budget + 3
       /\ \A i \in 1..budget : cell[i] = field[i]
       /\ \A i \in (budget + 1)..(budget + 3) : cell[i] = 46

\* The stored items whose text column col equals the str v, in stored order.
Matching(col, v) == SelectSeq(db_items, LAMBDA r : r[col] = v)

FilterKinds == {"location", "category", "condition"}

\* C1: generate_inventory_pdf never propagates an exception: every call that
\* ends hands back a document stream, the fallback document (title and two
\* lines of error text) exactly when a step inside the call raised.
C1_NeverPropagates ==
  /\ pc # "raised"
  /\ Done => /\ result.status = "returned"
             /\ exc = "none" => result.stream.doc = "main"
             /\ exc # "none" =>
                  /\ result.stream.doc = "fallback"
                  /\ Len(Doc) = 3
                  /\ \A i \in 1..3 : Doc[i].kind = "Paragraph"
                  /\ Doc[1].text = F_Title

\* C1 witness: a non-numeric id made the selection raise ValueError and the
\* caller received the fallback document.
C1_Witness ==
  /\ Done /\ exc = "ValueError" /\ report_type = "item" /\ IsFallback

\* C2 as stated: in a location report every row's location cell equals V, and
\* with no matching item the table is omitted and the normal document returned.
C2_Original ==
  (Done /\ report_type = "location" /\ filter_value.t = "str" /\ ~ExternalFault) =>
     /\ IsMain
     /\ \A i \in 1..Len(TablesOf(Doc)) :
          \A j \in 1..Len(DataRows(TablesOf(Doc)[i])) :
             DataRows(TablesOf(Doc)[i])[j][3] = filter_value.s
     /\ Matching("location", filter_value.s) = <<>> => TablesOf(Doc) = <<>>

\* C2 amended: in a location report with filter value V every row's location
\* cell shows V under the 30-character budget (V itself when it has at most 30
\* characters, else its first 30 characters and "..."), and every row stems
\* from a stored item whose location is V; with no matching item the table is
\* omitted and the normal document is returned.
C2_LocationRows ==
  (Done /\ report_type = "location" /\ filter_value.t = "str" /\ ~ExternalFault) =>
     /\ IsMain
     /\ \A i \in 1..Len(TablesOf(Doc)) :
          \A j \in 1..Len(DataRows(TablesOf(Doc)[i])) :
             LET row == DataRows(TablesOf(Doc)[i])[j]
             IN  /\ Shows(row[3], filter_value.s, 30)
                 /\ \E k \in 1..Len(db_items) :
                      /\ db_items[k].location = filter_value.s
                      /\ Shows(row[1], db_items[k].name, 50)
                      /\ row[4] = db_items[k].condition
     /\ Matching("location", filter_value.s) = <<>> => TablesOf(Doc) = <<>>

\* C2 witness: a location report on the 31-character location has a row.
C2_Witness ==
  /\ Done /\ report_type = "location" /\ filter_value = FStr(LongLoc) /\ IsMain
  /\ Len(TablesOf(Doc)) = 1
  /\ Len(DataRows(TablesOf(Doc)[1])) >= 1

\* C3: a location, category or condition report with a non-empty filter value
\* V has exactly one flat-table row per stored item whose field equals V
\* exactly, in stored order, under the columns name, category, location,
\* condition, notes, each row showing its item's fields; the title contains V
\* verbatim; an item whose fields fit their budgets is shown field for field.
C3_FlatRows ==
  (Done /\ report_type \in FilterKinds /\ filter_value.t = "str"
        /\ filter_value.s # <<>> /\ ~ExternalFault) =>
     LET V == filter_value.s
         m == Matching(report_type, V)
         t == TablesOf(Doc)
     IN  /\ IsMain
         /\ Contains(Doc[1].text, V)
         /\ Len(t) = (IF m = <<>> THEN 0 ELSE 1)
         /\ m # <<>> =>
              /\ t[1].data[1] = <<H_ItemName, H_Category, H_Location, H_Condition, H_Notes>>
              /\ Len(DataRows(t[1])) = Len(m)
              /\ \A j \in 1..Len(m) :
                   LET row == DataRows(t[1])[j]
                   IN  /\ Len(row) = 5
                       /\ Shows(row[1], m[j].name, 50)
                       /\ Shows(row[2], m[j].category, 30)
                       /\ Shows(row[3], m[j].location, 30)
                       /\ row[4] = m[j].condition
                       /\ m[j].notes # NaN => Shows(row[5], m[j].notes, 50)
                       /\ (Len(m[j].name) <= 50 /\ Len(m[j].category) <= 30
                             /\ Len(m[j].location) <= 30 /\ m[j].notes # NaN
                             /\ Len(m[j].notes) <= 50)
                          => row = <<m[j].name, m[j].category, m[j].location,
                                     m[j].condition, m[j].notes>>

\* C3 witness: a location report on "Zone1" over a table whose only Zone1 item
\* is Radio A has exactly one row, Radio A's fields, under a title with "Zone1".
C3_Witness ==
  /\ Done /\ report_type = "location" /\ filter_value = FStr(Zone1) /\ IsMain
  /\ Len(db_items) = 2
  /\ Len(Matching("location", Zone1)) = 1
  /\ Contains(Doc[1].text, Zone1)
  /\ DataRows(TablesOf(Doc)[1]) = << <<RadioA, Handheld, Zone1, Good, Empty>> >>

\* Decimal text of a count below 100.
Dec(n) == IF n < 10 THEN <<48 + n>> ELSE <<48 + (n \div 10), 48 + (n % 10)>>

\* C4 as stated: for every item set, the empty one included, a complete report
\* carries a summary block whose total is the number of items passed in.
C4_SummaryTotal ==
  (Done /\ report_type = "complete" /\ ~ExternalFault) =>
     /\ IsMain
     /\ \E i \in 1..Len(Doc) :
          /\ Doc[i].kind = "Table"
          /\ Doc[i].data = << <<S_TotalItems, Dec(Len(db_items))>> >>

\* C4 for the item sets the code covers: with at least one item the summary
\* block is there and its total is the number of items; with none it is absent.
C4_NonEmptyTotal ==
  (Done /\ report_type = "complete" /\ ~ExternalFault) =>
     /\ IsMain
     /\ Len(db_items) > 0 =>
          /\ Doc[4].kind = "Table"
          /\ Doc[4].data = << <<S_TotalItems, Dec(Len(db_items))>> >>
     /\ Len(db_items) = 0 => TablesOf(Doc) = <<>>

\* The section headings of a complete report, in document order.
SectionHeads(d) == SelectSeq(d, LAMBDA e : e.kind = "Paragraph" /\ e.style = "LocationHeader")

\* Heading text h is "<l> (...".
HeadedBy(h, l) ==
  /\ Len(h) > Len(l) + 2
  /\ SubSeq(h, 1, Len(l)) = l
  /\ h[Len(l) + 1] = 32
  /\ h[Len(l) + 2] = 40

\* a sorts strictly before b in lexical (code point) order.
Before(a, b) ==
  \E k \in 1..Len(b) :
     /\ \A i \in 1..(k - 1) : i <= Len(a) /\ a[i] = b[i]
     /\ \/ k = Len(a) + 1
        \/ k <= Len(a) /\ a[k] < b[k]

\* C5: in a complete report the per-location sections come in ascending lexical
\* order of location name, whatever order get_locations and get_items returned.
C5_SectionsSorted ==
  (Done /\ report_type = "complete" /\ IsMain) =>
     LET h == SectionHeads(Doc)
     IN  \A i \in 1..(Len(h) - 1) :
            \E a, b \in db_locations :
               /\ HeadedBy(h[i].text, a)
               /\ HeadedBy(h[i + 1].text, b)
               /\ Before(a, b)

\* C5 witness: get_locations returned Zone2, the long location, Zone1, the
\* items came Zone2 first, and the report has two sections.
C5_Witness ==
  /\ Done /\ report_type = "complete" /\ IsMain
  /\ locations = <<Zone2, LongLoc, Zone1>>
  /\ Len(db_items) = 2
  /\ db_items[1].location = Zone2
  /\ db_items[2].location = LongLoc
  /\ Len(SectionHeads(Doc)) = 2

\* C6 as stated: a complete report lists every known location, one holding no
\* item included.
C6_Original ==
  (Done /\ report_type = "complete" /\ ~ExternalFault) =>
     /\ IsMain
     /\ \A l \in db_locations :
          \E i \in 1..Len(Doc) : Doc[i].kind = "Paragraph" /\ HeadedBy(Doc[i].text, l)

\* C6 amended: a complete report has a section exactly for the known locations
\* that hold at least one item; a location holding no item gets no section and
\* no notice (the only paragraphs are the title, the timestamp and the section
\* headings, and every heading is followed by a table with at least one row).
C6_OccupiedLocationsOnly ==
  (Done /\ report_type = "complete" /\ ~ExternalFault) =>
     /\ IsMain
     /\ \A l \in db_locations :
          (\E i \in 1..Len(SectionHeads(Doc)) : HeadedBy(SectionHeads(Doc)[i].text, l))
            <=> (\E k \in 1..Len(db_items) : db_items[k].location = l)
     /\ Len(SelectSeq(Doc, LAMBDA e : e.kind = "Paragraph")) = 2 + Len(SectionHeads(Doc))
     /\ \A i \in 1..Len(Doc) :
          (Doc[i].kind = "Paragraph" /\ Doc[i].style = "LocationHeader") =>
             /\ i + 2 <= Len(Doc)
             /\ Doc[i + 2].kind = "Table"
             /\ Len(Doc[i + 2].data) >= 2

\* C6 witness: the only item is in Zone1; the report has the Zone1 section and
\* nothing for Zone2 and the long location.
C6_Witness ==
  /\ Done /\ report_type = "complete" /\ IsMain
  /\ Len(db_items) = 1 /\ db_items[1].location = Zone1
  /\ Len(SectionHeads(Doc)) = 1
  /\ HeadedBy(SectionHeads(Doc)[1].text, Zone1)

\* C7: each section of a complete report is headed "<location> (<n> items)",
\* n being both the number of data rows of the section's table and the number
\* of stored items at that location; the table's columns are name, category,
\* condition, notes.
C7_SectionHeading ==
  (Done /\ report_type = "complete" /\ IsMain) =>
     \A i \in 1..Len(Doc) :
        (Doc[i].kind = "Paragraph" /\ Doc[i].style = "LocationHeader") =>
           /\ i + 2 <= Len(Doc)
           /\ Doc[i + 2].kind = "Table"
           /\ Doc[i + 2].data[1] = <<H_ItemName, H_Category, H_Condition, H_Notes>>
           /\ \E l \in db_locations :
                LET n == Len(Doc[i + 2].data) - 1
                IN  /\ Doc[i].text = l \o <<32, 40>> \o Dec(n) \o <<32, 105, 116, 101, 109, 115, 41>>
                    /\ n = Cardinality({k \in 1..Len(db_items) : db_items[k].location = l})

\* C7 witness: two items at Zone2 give the heading "Zone2 (2 items)".
C7_Witness ==
  /\ Done /\ report_type = "complete" /\ IsMain
  /\ \E i \in 1..Len(Doc) :
       /\ Doc[i].kind = "Paragraph"
       /\ Doc[i].text = <<90, 111, 110, 101, 50, 32, 40, 50, 32, 105, 116, 101, 109, 115, 41>>

\* The cell of a field under a budget, as the claims state it.
Cut(field, budget) ==
  IF Len(field) > budget THEN [i \in 1..(budget + 3) |-> IF i <= budget THEN field[i] ELSE 46]
  ELSE field

\* C8: in the flat table of a location, category or condition report a name
\* of more than 50 characters is its first 50 characters and "...", one of at
\* most 50 is unchanged; category and location likewise at 30, notes at 50;
\* condition is never cut; a missing notes value is the empty string.
C8_FlatTruncation ==
  (Done /\ report_type \in FilterKinds /\ filter_value.t = "str"
        /\ filter_value.s # <<>> /\ IsMain) =>
     LET m == Matching(report_type, filter_value.s)
     IN  m # <<>> =>
           /\ Len(TablesOf(Doc)) = 1
           /\ \A j \in 1..Len(m) :
                LET row == TablesOf(Doc)[1].data[j + 1]
                IN  /\ row[1] = Cut(m[j].name, 50)
                    /\ row[2] = Cut(m[j].category, 30)
                    /\ row[3] = Cut(m[j].location, 30)
                    /\ row[4] = m[j].condition
                    /\ row[5] = (IF m[j].notes = NaN THEN <<>> ELSE Cut(m[j].notes, 50))

\* C8 witness: a category report whose row stems from an item with a
\* 51-character name, shown as its first 50 characters and "...".
C8_Witness ==
  /\ Done /\ report_type = "category" /\ IsMain
  /\ Len(TablesOf(Doc)) = 1
  /\ Len(items[1].name) = 51
  /\ Len(TablesOf(Doc)[1].data[2][1]) = 53
  /\ SubSeq(TablesOf(Doc)[1].data[2][1], 1, 50) = SubSeq(items[1].name, 1, 50)
  /\ SubSeq(TablesOf(Doc)[1].data[2][1], 51, 53) = <<46, 46, 46>>

\* C9: in the per-location tables of a complete report name, category and
\* notes are cut to 45, 25 and 40 characters, "..." appended only when the
\* field exceeds its budget; condition is never cut.
C9_LocationTruncation ==
  (Done /\ report_type = "complete" /\ IsMain) =>
     \A i \in 1..Len(Doc) :
        (Doc[i].kind = "Paragraph" /\ Doc[i].style = "LocationHeader") =>
           \E l \in db_locations :
              LET m == Matching("location", l)
              IN  /\ HeadedBy(Doc[i].text, l)
                  /\ Len(Doc[i + 2].data) = Len(m) + 1
                  /\ \A j \in 1..Len(m) :
                       LET row == Doc[i + 2].data[j + 1]
                       IN  /\ row[1] = Cut(m[j].name, 45)
                           /\ row[2] = Cut(m[j].category, 25)
                           /\ row[3] = m[j].condition
                           /\ row[4] = (IF m[j].notes = NaN THEN <<>> ELSE Cut(m[j].notes, 40))

\* C9 witness: a complete report with a row for a 46-character name, shown as
\* 45 characters and "...", next to a row for a 45-character name, unchanged.
C9_Witness ==
  /\ Done /\ report_type = "complete" /\ IsMain
  /\ Len(db_items) = 2
  /\ Len(db_items[1].name) = 46
  /\ Len(db_items[2].name) = 45
  /\ \E i \in 1..Len(Doc) :
       /\ Doc[i].kind = "Table" /\ Len(Doc[i].data) = 2
       /\ Len(Doc[i].data[2][1]) = 48
  /\ \E i \in 1..Len(Doc) :
       /\ Doc[i].kind = "Table" /\ Len(Doc[i].data) = 2
       /\ Doc[i].data[2][1] = db_items[2].name

\* C10 as stated: for every id value supplied, an item report selects exactly
\* the items with that id; the title carries the matched item's name, or "Not
\* Found" when no item has the id, in which case no row is produced and the
\* normal document is returned.
C10_ItemReport ==
  (Done /\ report_type = "item" /\ ~ExternalFault
        /\ (filter_value.t = "int" \/ filter_value = FStr(Digit1))) =>
     LET id == IF filter_value.t = "int" THEN filter_value.n ELSE 1
         m  == SelectSeq(db_items, LAMBDA r : r.id = id)
     IN  /\ IsMain
         /\ items = m
         /\ m # <<>> => Contains(Doc[1].text, m[1].name)
         /\ m = <<>> => /\ Contains(Doc[1].text, S_NotFound)
                        /\ TablesOf(Doc) = <<>>

\* C10 for the ids the truthiness test lets through: the same with id 0 left out.
C10_NonZeroIds ==
  (Done /\ report_type = "item" /\ ~ExternalFault
        /\ ((filter_value.t = "int" /\ filter_value.n # 0) \/ filter_value = FStr(Digit1))) =>
     LET id == IF filter_value.t = "int" THEN filter_value.n ELSE 1
         m  == SelectSeq(db_items, LAMBDA r : r.id = id)
     IN  /\ IsMain
         /\ items = m
         /\ m # <<>> => Contains(Doc[1].text, m[1].name)
         /\ m = <<>> => /\ Contains(Doc[1].text, S_NotFound)
                        /\ TablesOf(Doc) = <<>>

\* A str filter value that is not empty and not a decimal number.
NonNumericFilter ==
  /\ filter_value.t = "str"
  /\ filter_value.s # <<>>
  /\ \E i \in 1..Len(filter_value.s) : filter_value.s[i] \notin 48..57

\* C11: an item report whose filter value is not numeric fails during
\* selection (it never reaches layout or build), and the failure becomes the
\* fallback document: the caller gets the fallback document and no exception.
C11_NonNumericItemId ==
  (report_type = "item" /\ NonNumericFilter) =>
     /\ pc \notin {"layout", "build", "raised"}
     /\ title = <<>> /\ elements = <<>>
     /\ pc = "except" => exc \in {"ValueError", "DataAccessError"}
     /\ (Done /\ exc # "DataAccessError") => (exc = "ValueError" /\ IsFallback)
     /\ Done => (IsFallback /\ Doc[1].text = F_Title)

\* C11 witness: the item report for the id "Zone1" over a readable table
\* returned the fallback document after int() raised.
C11_Witness ==
  /\ Done /\ report_type = "item" /\ filter_value = FStr(Zone1)
  /\ Len(items) = 2 /\ exc = "ValueError" /\ IsFallback

\* The request takes the else branch: unrecognized kind, or a filtering kind
\* with no (None, empty) filter value.
FallsBackToAll ==
  \/ report_type = "bogus"
  \/ /\ report_type \in {"item", "location", "category", "condition"}
     /\ filter_value \in {FNone, FStr(Empty)}

\* Some table of document d has a data row whose name cell shows item it.
HasRowFor(d, it) ==
  \E i \in 1..Len(d) :
     /\ d[i].kind = "Table"
     /\ \E j \in 2..Len(d[i].data) :
          \/ Shows(d[i].data[j][1], it.name, 50)
          \/ Shows(d[i].data[j][1], it.name, 45)

C13_HeaderAndSummary ==
  (Done /\ IsMain) =>
     /\ Len(Doc) >= 2
     /\ Doc[1].kind = "Paragraph" /\ Doc[1].style = "CustomTitle"
     /\ Contains(Doc[1].text, S_Title)
     /\ Doc[2].kind = "Paragraph"
     /\ SubSeq(Doc[2].text, 1, Len(S_Generated)) = S_Generated
     /\ Len(Doc[2].text) > Len(S_Generated)
     /\ report_type = "complete" =>
          \E i \in 1..Len(Doc) :
             /\ Doc[i].kind = "Table"
             /\ Doc[i].data = << <<S_TotalItems, Dec(Len(db_items))>> >>

\* C13 without its summary clause for the empty item set: the title and the
\* timestamp head every non-fallback document, and a complete report over at
\* least one item carries the summary block.
C13_HeaderAlways ==
  (Done /\ IsMain) =>
     /\ Len(Doc) >= 2
     /\ Doc[1].kind = "Paragraph" /\ Doc[1].style = "CustomTitle"
     /\ Contains(Doc[1].text, S_Title)
     /\ Doc[2].kind = "Paragraph"
     /\ SubSeq(Doc[2].text, 1, Len(S_Generated)) = S_Generated
     /\ (report_type = "complete" /\ Len(db_items) > 0) =>
          Doc[4].data = << <<S_TotalItems, Dec(Len(db_items))>> >>

\* The render steps of a call, in the order the code runs them.
RenderSteps == {"get_items", "select", "layout", "build"}

\* C14: a call yields exactly one document and retries nothing: each render
\* step is entered once, from the step before it; after a failure the only
\* steps left are the fallback build and the return; the caller's result is
\* set once, by the return.
C14_NoRetry ==
  [][ /\ pc' = "get_items" => pc = "idle"
      /\ pc' = "select" => pc = "get_items"
      /\ pc' = "layout" => pc = "select"
      /\ pc' = "build" => pc = "layout"
      /\ pc = "build" => pc' \in {"return", "except"}
      /\ pc = "except" => (pc' = "return" /\ buffer'.doc = "fallback")
      /\ (exc # "none" /\ pc \in {"except", "return"}) => pc' \notin RenderSteps
      /\ pc = "return" => (pc' = "done" /\ result'.status = "returned"
                             /\ result'.stream.doc \in {"main", "fallback"})
      /\ (result' # result /\ result'.status = "returned") => pc = "return"
    ]_vars

\* C14 witness: the build failed after the layout was complete and the call
\* returned the fallback document.
C14_Witness ==
  /\ Done /\ exc = "LayoutError" /\ elements # <<>> /\ IsFallback

\* C15: report generation leaves the inventory as it was: no step of a call,
\* on the success or on the fallback path, changes the stored items or
\* locations.
C15_NoSideEffects ==
  [][db_items' = db_items /\ db_locations' = db_locations]_vars

\* C15 witness: a location report selected one of two stored items and
\* returned; both items are still stored.
C15_Witness ==
  /\ Done /\ report_type = "location" /\ IsMain
  /\ Len(items) = 1 /\ Len(db_items) = 2

\* An item table: its header row starts with "Item Name".
IsItemTable(e) == e.kind = "Table" /\ e.data[1][1] = H_ItemName

\* C16: in every item table, flat or per-location, data row i (from 1 below
\* the header) is light grey when i is odd and white when i is even, so
\* adjacent data rows differ; the header row has its own colour.
C16_AlternatingRows ==
  (Done /\ IsMain) =>
     \A k \in 1..Len(Doc) :
        (Doc[k].kind = "Table" /\ IsItemTable(Doc[k])) =>
           /\ Len(Doc[k].row_bg) = Len(Doc[k].data) - 1
           /\ \A i \in 1..Len(Doc[k].row_bg) :
                Doc[k].row_bg[i] = (IF i % 2 = 1 THEN "#F5F5F5" ELSE "#FFFFFF")
           /\ \A i \in 1..(Len(Doc[k].row_bg) - 1) : Doc[k].row_bg[i] # Doc[k].row_bg[i + 1]
           /\ Doc[k].header_bg \in {"#1976D2", "#2196F3"}

\* C16 witness: a per-location table with two data rows, grey then white.
C16_Witness ==
  /\ Done /\ report_type = "complete" /\ IsMain
  /\ \E k \in 1..Len(Doc) :
       /\ Doc[k].kind = "Table" /\ IsItemTable(Doc[k])
       /\ Doc[k].row_bg = <<"#F5F5F5", "#FFFFFF">>


\* ------------------------------------------------- claims on the session
\* A user is logged in; their record; a pending password change.  The
\* session has no key before the first run.
LoggedIn     == "authenticated" \in DOMAIN ss /\ ss.authenticated
HasUser      == "user" \in DOMAIN ss /\ ss.user # NoUser
IsSupervisor == HasUser /\ ss.user.role = "corrections_supervisor"
MustChange   == HasUser /\ ss.user.password_change_required

\* The step is a run of main() that changed the session or what is shown.
RunStep == <<ss, rendered, rerun>>' # <<ss, rendered, rerun>>

\* A logged-in user who is no supervisor, has no password change pending,
\* and whose view is one of the two admin views.
NonSupervisorOnAdminView ==
  /\ LoggedIn /\ HasUser
  /\ ~IsSupervisor /\ ~MustChange
  /\ ss.view \in {"admin_dashboard", "edit_employee"}

\* C17: the admin dashboard and the edit-employee page are rendered only for
\* a logged-in user whose role is corrections_supervisor; and the run that
\* dispatches a non-supervisor whose view is admin_dashboard or edit_employee
\* renders no page and leaves the view at dashboard (or, the session having
\* expired, logs the user out).
C17_AdminPagesSupervisorOnly ==
  /\ [](rendered \in {"admin_dashboard", "edit_employee"} => LoggedIn /\ IsSupervisor)
  /\ [][NonSupervisorOnAdminView /\ RunStep =>
          /\ rendered' = "none"
          /\ ss'.view = "dashboard" \/ ~ss'.authenticated]_vars

C17_Witness == NonSupervisorOnAdminView /\ rerun

\* C18: while the logged-in user's password_change_required flag is set, no
\* application view is rendered; and a step in which the flag of the
\* logged-in user goes from set to cleared is one in which change_password
\* reported success, and it leaves the view at admin_dashboard for a
\* corrections_supervisor and at dashboard for every other role.
C18_ForcedPasswordChange ==
  /\ [](LoggedIn /\ MustChange => rendered \in {"password_change", "login", "none"})
  /\ [][LoggedIn /\ MustChange /\ ss'.authenticated /\ ss'.user # NoUser
          /\ ~ss'.user.password_change_required =>
          /\ pw_result' = "success"
          /\ ss'.view = IF ss'.user.role = "corrections_supervisor"
                        THEN "admin_dashboard" ELSE "dashboard"]_vars

C18_Witness ==
  /\ pw_result = "success"
  /\ rendered = "password_change"
  /\ LoggedIn /\ HasUser /\ ~MustChange

\* C19: a pending delete (delete_item_id or show_delete_confirm set) exists
\* only in the session of a corrections_supervisor; and a run that calls
\* delete_item starts with the id pending in the session of a
\* corrections_supervisor, passes that id, and got a confirmation from the
\* dialog.
C19_DeleteOnlyConfirmed ==
  /\ []("delete_item_id" \in DOMAIN ss /\ (ss.delete_item_id # 0 \/ ss.show_delete_confirm)
          => LoggedIn /\ IsSupervisor)
  /\ [][ss' # ss /\ delete_call' # 0 =>
          /\ LoggedIn /\ IsSupervisor
          /\ "delete_item_id" \in DOMAIN ss
          /\ ss.delete_item_id = delete_call' /\ ss.show_delete_confirm
          /\ dialog' = "yes"]_vars

C19_Witness ==
  /\ delete_call # 0 /\ dialog = "yes" /\ rerun
  /\ \A i \in 1..Len(db_items) : db_items[i].id # delete_call
  /\ LoggedIn /\ IsSupervisor

\* C20: while authenticated is False (or not yet set) the last run rendered
\* the login page or no page; while authenticated is True the session's user
\* is a user record with a username and a role.
C20_SessionInvariant ==
  /\ ~LoggedIn => rendered \in {"login", "none"}
  /\ LoggedIn => /\ HasUser
                 /\ {"username", "role"} \subseteq DOMAIN ss.user

C20_Witness == LoggedIn /\ HasUser /\ rendered = "login" /\ rerun


\* C21: a step that takes a logged-in session to a logged-out one (logout or
\* session timeout) leaves exactly the default keys at their default values
\* (authenticated False, user None, view login, session_start None, no
\* pending delete, no selected item), renders no page and ends in a rerun;
\* the next run of a logged-out session renders the login page; and a
\* logged-out session has no session_start, so a login starts with
\* session_start unset.
C21_LogoutResets ==
  /\ [][LoggedIn /\ ~LoggedIn' =>
          /\ DOMAIN ss' = {"authenticated", "user", "view", "edit_item", "edit_employee",
                           "search_query", "filter_category", "filter_location",
                           "show_filters", "session_start"}
          /\ ss'.authenticated = FALSE /\ ss'.user = NoUser /\ ss'.view = "login"
          /\ ss'.session_start = 0 - 1
          /\ ss'.edit_item = 0 /\ ss'.edit_employee = ""
          /\ rendered' = "none" /\ rerun']_vars
  /\ [][~LoggedIn /\ RunStep => rendered' = "login"]_vars
  /\ [][~LoggedIn /\ LoggedIn' => ss'.session_start = 0 - 1]_vars

C21_Witness ==
  /\ ~LoggedIn /\ ss # EmptySession
  /\ rendered = "none" /\ rerun


\* The session main() hands to the page functions: the stored keys and the
\* defaults of the absent ones.
Session == [k \in DOMAIN ss \cup {"authenticated", "user", "view"} |->
              IF k \in DOMAIN ss THEN ss[k]
              ELSE CASE k = "authenticated" -> FALSE
                     [] k = "user" -> NoUser
                     [] k = "view" -> "login"]

\* C22: for every session the program reaches and every result of
\* authenticate_user, handle_login reports failure and leaves authenticated,
\* user and view (indeed every key) as they were when the result carries an
\* error message or no user data; otherwise it reports success, sets user to
\* the returned record and authenticated to True, and sets the view to
\* admin_dashboard for role corrections_supervisor and to dashboard for every
\* other role, leaving the other keys alone.
C22_HandleLogin ==
  \A r \in AuthResults \cup
           {[user_data |-> [username |-> "alice", role |-> other,
                           password_change_required |-> FALSE],
             error_message |-> e] : other \in {"visitor", ""}, e \in BOOLEAN} :
    LET h == handle_login(Session, r) IN
    IF r.error_message \/ r.user_data = NoUser
    THEN ~h.ok /\ h.s = Session
    ELSE /\ h.ok
         /\ h.s.user = r.user_data
         /\ h.s.authenticated = TRUE
         /\ h.s.view = IF r.user_data.role = "corrections_supervisor"
                       THEN "admin_dashboard" ELSE "dashboard"
         /\ DOMAIN h.s = DOMAIN Session
         /\ \A k \in DOMAIN Session \ {"user", "authenticated", "view"} : h.s[k] = Session[k]

\* A login of an employee has just succeeded.
C22_Witness ==
  /\ rendered = "login" /\ rerun
  /\ LoggedIn /\ HasUser
  /\ ss.user.role = "employee" /\ ss.view = "dashboard"
  /\ ss.session_start = 0 - 1


\* The per-location tables of a document (four columns), in order, and the
\* number of data rows of a sequence of tables.
LocationTables(d) == SelectSeq(d, LAMBDA e : e.kind = "Table" /\ Len(e.data[1]) = 4)

RECURSIVE RowSum(_)
RowSum(ts) == IF ts = <<>> THEN 0 ELSE (Len(ts[1].data) - 1) + RowSum(Tail(ts))

\* The indexes of the sections of d headed by location l.
SectionsOf(d, l) ==
  { i \in 1..Len(d) : d[i].kind = "Paragraph" /\ d[i].style = "LocationHeader"
                      /\ HeadedBy(d[i].text, l) }

ExistingIdRequested ==
  /\ report_type = "item"
  /\ \/ filter_value.t = "int" /\ \E k \in 1..Len(db_items) : db_items[k].id = filter_value.n
     \/ filter_value = FStr(Digit1) /\ \E k \in 1..Len(db_items) : db_items[k].id = 1

\* C24 as stated: an item report for an id that exists returns the normal
\* document with a table holding a row that shows the matched item's name,
\* category and condition.
C24_ItemRow ==
  (Done /\ ExistingIdRequested /\ ~ExternalFault) =>
     /\ IsMain
     /\ \E i \in 1..Len(Doc) :
          /\ Doc[i].kind = "Table"
          /\ \E j \in 2..Len(Doc[i].data) :
               /\ Contains(Doc[i].data[j][1], SubSeq(items[1].name, 1, 45))
               /\ items[1].condition \in { Doc[i].data[j][c] : c \in 1..Len(Doc[i].data[j]) }

\* What the code does: the document of such a report is the title carrying
\* the item's name, the timestamp and a spacer, and no table.
C24_TitleOnly ==
  (Done /\ ExistingIdRequested /\ ~ExternalFault) =>
     /\ IsMain
     /\ Len(items) = 1
     /\ Len(Doc) = 3
     /\ Contains(Doc[1].text, items[1].name)
     /\ TablesOf(Doc) = <<>>


\* The document call p returned, and the rows of frame at location l.
DocOf(p)      == calls[p].result.stream.elements
At(frame, l)  == SelectSeq(frame, LAMBDA r : r.location = l)

\* Document d is the complete report of frame: the summary total is the
\* number of its rows, and every location holding rows of it has one section,
\* headed with their number and listing them.
DescribesComplete(d, frame) ==
  /\ Len(frame) > 0 => d[4].data = << <<S_TotalItems, Dec(Len(frame))>> >>
  /\ RowSum(LocationTables(d)) = Len(frame)
  /\ \A l \in db_locations :
       LET m == At(frame, l) IN
       IF m = <<>> THEN SectionsOf(d, l) = {}
       ELSE /\ Cardinality(SectionsOf(d, l)) = 1
            /\ \A i \in SectionsOf(d, l) :
                 /\ d[i].text = l \o <<32, 40>> \o Dec(Len(m)) \o <<32, 105, 116, 101, 109, 115, 41>>
                 /\ Len(d[i + 2].data) = Len(m) + 1
                 /\ \A j \in 1..Len(m) :
                      /\ d[i + 2].data[j + 1][1] = Cut(m[j].name, 45)
                      /\ d[i + 2].data[j + 1][3] = m[j].condition

\* Document d is the report of frame for location l: one flat table listing
\* the rows of frame at l, or no table when there is none.
DescribesLocation(d, frame, l) ==
  LET m == At(frame, l) IN
  IF m = <<>> THEN TablesOf(d) = <<>>
  ELSE /\ Len(TablesOf(d)) = 1
       /\ Len(TablesOf(d)[1].data) = Len(m) + 1
       /\ \A j \in 1..Len(m) :
            /\ TablesOf(d)[1].data[j + 1][1] = Cut(m[j].name, 50)
            /\ TablesOf(d)[1].data[j + 1][4] = m[j].condition

\* C25: with other sessions adding, updating and deleting items and another
\* report in the making, (a) the frame of a call changes only in its one
\* get_items step, which makes it the items table of that moment (or when the
\* call begins, fails or is over); (b) the normal document a call returns
\* describes that frame in its summary total, its per-location counts and its
\* rows, whatever the items table has become since; (c) a step of one call
\* changes nothing of the other call, and a write to the items table changes
\* nothing of any call, its returned stream included.
C25_OneSnapshot ==
  /\ [][\A p \in Procs :
          calls'[p].items # calls[p].items =>
             \/ calls[p].pc = "get_items" /\ calls'[p].items = db_items
             \/ calls'[p].items = <<>>]_vars
  /\ [](\A p \in Procs :
          (calls[p].pc = "done" /\ calls[p].result.stream.doc = "main") =>
             /\ calls[p].report_type = "complete" =>
                  DescribesComplete(DocOf(p), calls[p].items)
             /\ calls[p].report_type = "location" =>
                  DescribesLocation(DocOf(p), calls[p].items, calls[p].filter_value.s))
  /\ [][/\ \A p, q \in Procs : (p # q /\ calls'[p] # calls[p]) => calls'[q] = calls[q]
        /\ db_items' # db_items => calls' = calls]_vars

\* C25 witness: a complete report of two items has been returned after a
\* writer changed the items table, while the other call holds another frame.
C25_Witness ==
  \E p, q \in Procs :
     /\ p # q
     /\ calls[p].pc = "done" /\ calls[p].result.stream.doc = "main"
     /\ calls[p].report_type = "complete"
     /\ Len(calls[p].items) = 2 /\ calls[p].items # db_items
     /\ calls[q].pc = "render" /\ calls[q].items # calls[p].items
     /\ calls[q].items # db_items


\* C26: from every logged-in session with no password change pending,
\* whatever its view, role, selected item and selected employee, the reruns
\* that follow without user input come to an end: a run renders a page and
\* requests no further rerun.
C26_RedirectsTerminate == <>(~rerun /\ rendered # "none")

\* C26 witness: an employee holding a selected employee (a session only the
\* combinations contain) has ended on the rendered dashboard.
C26_Witness ==
  /\ ~rerun /\ rendered = "dashboard"
  /\ LoggedIn /\ HasUser /\ ss.user.role = "employee"
  /\ ss.edit_employee # "" /\ ss.view = "dashboard"


\* A delete is pending in the session; no delete is pending in it.
DeletePending ==
  /\ "delete_item_id" \in DOMAIN ss
  /\ ss.delete_item_id # 0 /\ ss.show_delete_confirm
DeleteCleared ==
  /\ "delete_item_id" \in DOMAIN ss
  /\ ss.delete_item_id = 0 /\ ~ss.show_delete_confirm

\* C27: (a) after a run in which the dialog was answered, by a confirmation
\* (delete_item deleting, reporting failure or raising) or by a cancel,
\* delete_item_id is None and show_delete_confirm is False; (b) a run of the
\* inventory page that finds the selected item gone drops that selection:
\* nothing is pending afterwards, unless a supervisor's click in that run
\* selected an item that exists; (c) a run that leaves the dialog open keeps
\* both values, unless a click in that run selected another existing item.
C27_PendingDeleteCleared ==
  /\ [](dialog \in {"yes", "no"} => DeleteCleared)
  /\ [][(DeletePending /\ ss.delete_item_id \notin ItemIds(db_items)
           /\ rendered' = "inventory" /\ ss' # ss) =>
          \/ DeleteCleared'
          \/ /\ rerun' /\ ss'.show_delete_confirm
             /\ ss'.delete_item_id \in ItemIds(db_items)]_vars
  /\ [][(DeletePending /\ dialog' = "open" /\ RunStep) =>
          \/ /\ ss'.delete_item_id = ss.delete_item_id
             /\ ss'.show_delete_confirm = ss.show_delete_confirm
          \/ /\ rerun' /\ ss'.show_delete_confirm
             /\ ss'.delete_item_id \in ItemIds(db_items)]_vars

\* C27 witness: the dialog was cancelled; nothing is pending, the item is kept.
C27_Witness ==
  /\ dialog = "no" /\ delete_call = 0 /\ rerun
  /\ DeleteCleared
  /\ LoggedIn /\ IsSupervisor /\ Len(db_items) = MaxItems


\* The session's start time is set; the session's age at the current time.
StartSet == "session_start" \in DOMAIN ss /\ ss.session_start # 0 - 1
Age == now - ss.session_start

\* The step is the reset of an authenticated session to the login defaults.
SessionDropped == LoggedIn /\ ~LoggedIn'

\* C28: (a) a session is dropped without the user having clicked anything
\* only when a user is logged in, session_start is set and the time since
\* session_start is strictly greater than the expiry period, and a run on
\* such a session always drops it; (b) the login run leaves session_start
\* unset, and a run that finds a logged-in user with session_start unset sets
\* it to the current time and reports no expiry; (c) the session of a user
\* who is not logged in is never reset by a run.
C28_SessionTimeout ==
  /\ [][(SessionDropped /\ rerun) =>
          HasUser /\ StartSet /\ Age > SessionExpiry]_vars
  /\ [][(LoggedIn /\ HasUser /\ StartSet /\ Age > SessionExpiry /\ RunStep) =>
          /\ ~LoggedIn' /\ ss'.session_start = 0 - 1
          /\ rerun']_vars
  /\ [][(~LoggedIn /\ LoggedIn') => ss'.session_start = 0 - 1]_vars
  /\ [][(LoggedIn /\ HasUser /\ ~StartSet /\ RunStep /\ rerun) =>
          LoggedIn' /\ ss'.session_start = now]_vars
  /\ [][(~LoggedIn /\ "view" \in DOMAIN ss /\ RunStep) =>
          \/ LoggedIn'
          \/ /\ ss'.view = ss.view /\ ss'.user = ss.user
             /\ ss'.session_start = ss.session_start]_vars

\* C28 witness: a session stamped by its first authenticated run has just
\* been dropped, one time unit past the expiry period, with no click.
C28_Witness ==
  /\ ~LoggedIn /\ "session_start" \in DOMAIN ss /\ ss.session_start = 0 - 1
  /\ rerun /\ rendered = "none"
  /\ now = SessionExpiry + 1


\* The fallback document as create_fallback_pdf writes it: the title as a
\* heading and the two lines of error text.
FallbackText ==
  << [kind |-> "Paragraph", style |-> "Heading1",
      text |-> <<82, 97, 100, 105, 111, 84, 114, 97, 99, 107, 32, 73, 110, 118,
                 101, 110, 116, 111, 114, 121, 32, 82, 101, 112, 111, 114, 116>>],
     [kind |-> "Paragraph", style |-> "Normal",
      text |-> <<80, 68, 70, 32, 103, 101, 110, 101, 114, 97, 116, 105, 111, 110,
                 32, 101, 110, 99, 111, 117, 110, 116, 101, 114, 101, 100, 32, 97,
                 110, 32, 105, 115, 115, 117, 101, 46>>],
     [kind |-> "Paragraph", style |-> "Normal",
      text |-> <<80, 108, 101, 97, 115, 101, 32, 99, 104, 101, 99, 107, 32, 116,
                 104, 101, 32, 97, 112, 112, 108, 105, 99, 97, 116, 105, 111, 110,
                 32, 100, 97, 116, 97, 32, 97, 110, 100, 32, 116, 114, 121, 32, 97,
                 103, 97, 105, 110, 46>>] >>

\* The failed build left something in the main buffer.
PartiallyWritten == pc = "except" /\ buffer.doc = "partial" /\ buffer.elements # <<>>

\* C29: when the build failed after part of the document was written to the
\* main buffer, the handler's buffer holds the fallback document and nothing
\* else, and the return hands back what the buffer holds, repositioned; every
\* returned stream is at offset 0, and after a failure it is exactly the
\* fallback document: the title and the two lines of error text.
C29_FallbackOnly ==
  /\ [](Done => result.status = "returned" /\ result.stream.pos = 0)
  /\ []((Done /\ exc # "none") =>
          /\ result.stream.doc = "fallback"
          /\ result.stream.elements = FallbackText)
  /\ []((Done /\ exc = "none") =>
          /\ result.stream.doc = "main"
          /\ result.stream.elements = elements)
  /\ [][PartiallyWritten =>
          /\ buffer'.doc = "fallback"
          /\ buffer'.elements = FallbackText]_vars
  /\ [][pc = "return" =>
          /\ result'.stream.doc = buffer.doc
          /\ result'.stream.elements = buffer.elements]_vars

\* C29 witness: the build of a laid-out document failed and the caller holds
\* the three-paragraph fallback document, positioned at its start.
C29_Witness ==
  /\ Done /\ exc = "LayoutError" /\ Len(elements) > 3
  /\ result.stream.doc = "fallback" /\ Len(result.stream.elements) = 3
  /\ result.stream.pos = 0

====
